---- MODULE Spec2Model ----
(***************************************************************************)
(* Routing and transaction engine of webext-bridge (src/src/internal.ts)   *)
(* as a state machine.                                                     *)
(*                                                                         *)
(* Every page window runs one instance of the module ("window" context).   *)
(* win.postMessage broadcasts on the window: the message event reaches the  *)
(* module's own listener (inbox) and the peers listening on the same       *)
(* window (outbox).  The peers (content script and what lies behind it)    *)
(* are the Transport collaborator of the specification: they acknowledge   *)
(* probes and carry a delivered envelope to the window it is meant for,    *)
(* clearing its destination on the terminal leg.                           *)
(*                                                                         *)
(* JavaScript values are records of one shape (JsVal) so that they can be  *)
(* compared; an optional object (destination, origin, a port) is a         *)
(* sequence of length 0 or 1.  The timestamp field of an envelope is       *)
(* carried along untouched by the code and is left out.                    *)
(***************************************************************************)
EXTENDS Naturals, Sequences, FiniteSets

\* ------------------------------------------------------------ bounds
MaxTx == 1
MaxAttempts == 3
MaxPeers == 2
MaxQueue == 2
MaxDup == 1
MaxOpen == 2
MaxPosts == 2

\* ------------------------------------------------------------ values
Procs == {"A", "B"}
\* the window whose application sends requests, the window whose application
\* registers handlers
Senders == {"A"}
Handlers == {"B"}
MsgIDs == {"ping"}
TIDs == 1..MaxTx

\* the `context` constant of the module
context == "window"
PeerContext == "content-script"

\* the uuid() each instance draws at load
runtimeId(p) == <<"rt", p>>

\* `let namespace: string` before any setNamespace call
UNSET == "undefined"
SharedNamespace == "ns"
NamespaceArgs == {SharedNamespace, ""}

\* t: the kind of value; v: a JSON value, or the class of an error instance;
\* name, message: the properties of an error or of its serialized record
JsVal(t, v, name, message) == [t |-> t, v |-> v, name |-> name, message |-> message]
Undefined == JsVal("undefined", "", "", <<>>)
Json(v) == JsVal("json", v, "", <<>>)
ErrorObj(class, name, message) == JsVal("error", class, name, message)
PlainObj(name, message) == JsVal("object", "", name, message)

\* JavaScript truthiness of a value
Truthy(x) == x.t # "undefined"

\* what a handler may return, and what it may throw (or reject with)
ReturnValues == {Json("v1"), Undefined}
ThrownValues ==
  {ErrorObj("TypeError", "TypeError", <<"boom">>),
   ErrorObj("MyError", "MyError", <<"boom">>),
   Undefined}

Endpoint(ctx) == <<[context |-> ctx, tabId |-> "null"]>>
NoEndpoint == <<>>

NoHandlerMessage(mid) ==
  <<"[webext-bridge] No handler registered in", context,
    "to accept messages with id", mid>>
ConfigError == ErrorObj("Error", "Error", <<"Call Bridge#setNamespace(nsps) to isolate your app">>)

VARIABLES
  namespace,           \* [Procs -> string]     the module's namespace
  openTransactions,    \* [Procs -> SUBSET TIDs] keys of the pending transactions
  onMessageListeners,  \* [Procs -> SUBSET MsgIDs] keys of the registered handlers
  inbox,               \* [Procs -> Seq(relay message)] message events due to the module's listener
  outbox,              \* [Procs -> Seq(relay message)] message events due to the peers on the window
  fwds,                \* [Procs -> Seq(forwarder)] the routeMessageThroughWindow closures
  pending,             \* [Procs -> Seq(envelope)] handleNewMessage calls suspended at `await cb`
  events,              \* [Procs -> Seq(event)] what the instance did, in order
  listening,           \* [Procs -> 0..MaxPeers] peers with a listener on the window
  transit,             \* [Procs -> Seq(envelope)] envelopes the peers hold for the window
  peerAcks,            \* [Procs -> Nat] acknowledgments the module posted on the peers' ports
  dups,                \* deliveries the peers have repeated so far
  nextTid,             \* next transaction id to draw
  posted,              \* relay messages other scripts have posted on the windows so far
  failed,              \* [Procs -> Seq(envelope)] envelope objects whose routing threw, as their caller holds them
  address,            \* the address string handed to parseEndpoint
  parsed               \* what parseEndpoint returned for it, once called

vars == <<namespace, openTransactions, onMessageListeners, inbox, outbox, fwds,
          pending, events, listening, transit, peerAcks, dups, nextTid,
          posted, failed, address, parsed>>


\* ------------------------------------------------------------ data
Min(a, b) == IF a < b THEN a ELSE b

Envelope(tid, mid, type, origin, destination, data) ==
  [transactionId |-> tid, messageID |-> mid, messageType |-> type,
   origin |-> origin, destination |-> destination, data |-> data,
   err |-> Undefined, hops |-> <<>>,
   \* not fields of the program: for a reply, how the handler call that made it ended
   outcome |-> "none", result |-> Undefined]

RelayMessage(cmd, scope, ctx, payload, port) ==
  [cmd |-> cmd, scope |-> scope, context |-> ctx, payload |-> payload, port |-> port]

\* port2 of the channel of attempt c of forwarder f of instance p; the peers' own port
Port(p, f, c) == <<[proc |-> p, fwd |-> f, chan |-> c]>>
PeerPort == Port("peer", 0, 0)

\* ev: returned, threw (how a handler call ended), nohandler, resolved, rejected
\* (a pending continuation settled with val), raised (val surfaced as a local
\* error), looped, ignored (an envelope dropped in silence).  outcome and result
\* repeat, for a settlement, those of the reply that settled it.
Event(ev, tid, val) ==
  [ev |-> ev, tid |-> tid, val |-> val, outcome |-> "none", result |-> Undefined]

\* The part of the state one instance's code reads and writes, as a record the
\* operators below transform; exc holds an exception on its way up the stack.
Local(p) ==
  [tx |-> openTransactions[p], inbox |-> inbox[p], outbox |-> outbox[p],
   fwds |-> fwds[p], pend |-> pending[p], events |-> events[p],
   acked |-> peerAcks[p], exc |-> <<>>,
   \* the envelope object a throwing call was forwarding
   obj |-> <<>>]

Log(s, ev, tid, val) == [s EXCEPT !.events = Append(@, Event(ev, tid, val))]
Throw(s, val) == [s EXCEPT !.exc = <<val>>]

\* an exception that leaves an async function (a rejected promise nobody awaits)
\* or an event-loop task: it surfaces in the context and goes no further
Surface(s, tid) ==
  IF s.exc = <<>> THEN s
  ELSE [Log(s, "raised", tid, s.exc[1]) EXCEPT !.exc = <<>>]

\* win.postMessage(m, '*'): a message event for every listener on the window
postMessage(s, m) ==
  [s EXCEPT !.inbox = Append(@, m), !.outbox = Append(@, m)]

\* ------------------------------------------------------------ Error Codec
\* serialize-error on an error object: a plain record of its properties
serializeError(e) ==
  IF e.t = "error" THEN PlainObj(e.name, e.message) ELSE e

\* self[name]: the global the name resolves to in the receiving context
GlobalErrorCtr(name) ==
  IF name \in {"Error", "TypeError", "RangeError"} THEN name ELSE "undefined"

\* new (typeof errCtr === 'function' ? errCtr : Error)(message), then every
\* property of the record copied onto the instance
hydrate(d) ==
  LET errCtr == GlobalErrorCtr(d.name)
      class == IF errCtr # "undefined" THEN errCtr ELSE "Error"
  IN ErrorObj(class, d.name, d.message)

\* ------------------------------------------------------------ Endpoint Model
\* (src/src/utils.ts)  A string is the sequence of its characters.
DigitChars == <<"0", "1", "2", "3", "4", "5", "6", "7", "8", "9">>
IsDigit(ch) == \E k \in 1..Len(DigitChars) : DigitChars[k] = ch
DigitValue(ch) == (CHOOSE k \in 1..Len(DigitChars) : DigitChars[k] = ch) - 1

\* the value of a JavaScript number, or NaN
Number(n) == [t |-> "number", n |-> n]
NaN == [t |-> "NaN", n |-> 0]

\* unary plus on a string of decimal digits
RECURSIVE ToNumber(_)
ToNumber(digits) ==
  IF digits = <<>> THEN 0
  ELSE 10 * ToNumber(SubSeq(digits, 1, Len(digits) - 1)) + DigitValue(digits[Len(digits)])

\* the alternatives of the first group of ENDPOINT_RE, in order; anchored: the
\* alternative ends with `$`
ENDPOINT_RE ==
  <<[lit |-> <<"b", "a", "c", "k", "g", "r", "o", "u", "n", "d">>, anchored |-> TRUE],
    [lit |-> <<"d", "e", "v", "t", "o", "o", "l", "s">>, anchored |-> FALSE],
    [lit |-> <<"p", "o", "p", "u", "p">>, anchored |-> FALSE],
    [lit |-> <<"o", "p", "t", "i", "o", "n", "s">>, anchored |-> FALSE],
    [lit |-> <<"c", "o", "n", "t", "e", "n", "t", "-", "s", "c", "r", "i", "p", "t">>, anchored |-> FALSE],
    [lit |-> <<"w", "i", "n", "d", "o", "w">>, anchored |-> FALSE]>>

StartsWith(str, lit) == Len(str) >= Len(lit) /\ SubSeq(str, 1, Len(lit)) = lit
After(str, lit) == SubSeq(str, Len(lit) + 1, Len(str))

\* (?:@(\d+))?$ on what follows the first group
IsInstanceSuffix(rest) ==
  \/ rest = <<>>
  \/ /\ Len(rest) >= 2
     /\ rest[1] = "@"
     /\ \A k \in 2..Len(rest) : IsDigit(rest[k])

\* the alternative matches at the start of str and the rest of the pattern
\* matches what follows
Matches(str, alt) ==
  /\ StartsWith(str, alt.lit)
  /\ alt.anchored => Len(str) = Len(alt.lit)
  /\ IsInstanceSuffix(After(str, alt.lit))

\* ENDPOINT_RE without the `$` of its first alternative
parseEndpointBackgroundInstance(endpoint) ==
  LET hits == {k \in 1..Len(ENDPOINT_RE) :
                 /\ StartsWith(endpoint, ENDPOINT_RE[k].lit)
                 /\ IsInstanceSuffix(After(endpoint, ENDPOINT_RE[k].lit))}
  IN IF hits = {} THEN [context |-> <<>>, tabId |-> NaN]
     ELSE LET alt == ENDPOINT_RE[CHOOSE k \in hits : \A h \in hits : k <= h]
              rest == After(endpoint, alt.lit)
          IN [context |-> <<alt.lit>>,
              tabId |-> IF rest = <<>> THEN NaN ELSE Number(ToNumber(Tail(rest)))]

\* endpoint.match(ENDPOINT_RE) || [], then { context, tabId: +tabId }; an
\* undefined context is the empty sequence
parseEndpoint(endpoint) ==
  LET hits == {k \in 1..Len(ENDPOINT_RE) : Matches(endpoint, ENDPOINT_RE[k])}
  IN IF hits = {} THEN [context |-> <<>>, tabId |-> NaN]
     ELSE LET alt == ENDPOINT_RE[CHOOSE k \in hits : \A h \in hits : k <= h]
              rest == After(endpoint, alt.lit)
          IN [context |-> <<alt.lit>>,
              tabId |-> IF rest = <<>> THEN NaN ELSE Number(ToNumber(Tail(rest)))]

\* the strings parseEndpoint is given: a context name or something else,
\* followed by an instance or something else
AddressHeads ==
  {<<"b", "a", "c", "k", "g", "r", "o", "u", "n", "d">>,
   <<"d", "e", "v", "t", "o", "o", "l", "s">>,
   <<"p", "o", "p", "u", "p">>,
   <<"o", "p", "t", "i", "o", "n", "s">>,
   <<"c", "o", "n", "t", "e", "n", "t", "-", "s", "c", "r", "i", "p", "t">>,
   <<"w", "i", "n", "d", "o", "w">>,
   <<>>,
   <<"w", "i", "n", "d", "o", "w", "s">>,
   <<"W", "i", "n", "d", "o", "w">>,
   <<"t", "a", "b">>,
   <<"x", "p", "o", "p", "u", "p">>}
AddressTails ==
  {<<>>,
   <<"@">>,
   <<"@", "0">>,
   <<"@", "7">>,
   <<"@", "1", "2">>,
   <<"@", "0", "0", "7">>,
   <<"@", "1", "a">>,
   <<"@", "-", "1">>,
   <<"7">>,
   <<"@", "1", "@", "2">>}
Addresses == {h \o t : h \in AddressHeads, t \in AddressTails}

\* ------------------------------------------------------------ forwarder
\* the check without `namespace.length === 0`
ensureNamespaceSetAnyString(p) == namespace[p] # UNSET

ensureNamespaceSet(p) == namespace[p] # UNSET /\ namespace[p] # ""

\* One forwarded envelope and its attempts.  attempt: the number of the current
\* channel; onmessage: the channels whose port1 has the handler; retry: the state
\* of the current attempt's timer; acks[c]: acknowledgments in flight to port1 of
\* channel c.  For the claims: arrived[c]: acknowledgments that reached port1 of
\* channel c; sent: deliveries broadcast; silent: the first attempt timed out
\* before any acknowledgment reached it.
NewForwarder(msg) ==
  [msg |-> msg, attempt |-> 0, onmessage |-> {}, retry |-> "none",
   acks |-> [c \in 1..MaxAttempts |-> 0], arrived |-> [c \in 1..MaxAttempts |-> 0],
   sent |-> 0, silent |-> FALSE]

\* routeMessageThroughWindow broadcasting the envelope at once, unconfirmed
routeMessageThroughWindowUnconfirmed(p, s, f, msg) ==
  IF ~ensureNamespaceSet(p) THEN Throw([s EXCEPT !.obj = <<msg>>], ConfigError)
  ELSE
    LET old == IF f > Len(s.fwds) THEN NewForwarder(msg) ELSE s.fwds[f]
        k == Min(old.attempt + 1, MaxAttempts)
        fw == [old EXCEPT !.attempt = k, !.onmessage = @ \cup {k}, !.retry = "pending",
                          !.sent = @ + 1]
        s1 == [s EXCEPT !.fwds = IF f > Len(s.fwds) THEN Append(@, fw)
                                  ELSE [@ EXCEPT ![f] = fw]]
    IN postMessage(s1, RelayMessage("route", namespace[p], context, <<msg>>, <<>>))

\* One activation of routeMessageThroughWindow for the envelope of forwarder f
\* (f = Len(fwds)+1: the first activation): a new channel, a new timer, the
\* handler on port1, the probe with port2.
routeMessageThroughWindow(p, s, f, msg) ==
  IF ~ensureNamespaceSet(p) THEN Throw([s EXCEPT !.obj = <<msg>>], ConfigError)
  ELSE
    LET old == IF f > Len(s.fwds) THEN NewForwarder(msg) ELSE s.fwds[f]
        k == Min(old.attempt + 1, MaxAttempts)
        fw == [old EXCEPT !.attempt = k, !.onmessage = @ \cup {k}, !.retry = "pending"]
        s1 == [s EXCEPT !.fwds = IF f > Len(s.fwds) THEN Append(@, fw)
                                  ELSE [@ EXCEPT ![f] = fw]]
    IN postMessage(s1, RelayMessage("verify", namespace[p], context, <<>>, Port(p, f, k)))

\* Channels beyond MaxAttempts share the number MaxAttempts: when such a channel is
\* given up, what is still in flight for it (probes to answer, acknowledgments to
\* arrive) can only reach a port without handler and is taken out of the model.
RetirePort(m, p, f) ==
  IF m.port = Port(p, f, MaxAttempts) THEN [m EXCEPT !.port = Port(p, f, 0)] ELSE m
RetireSeq(q, p, f) == [i \in 1..Len(q) |-> RetirePort(q[i], p, f)]
Retire(p, s, f) ==
  IF s.fwds[f].attempt < MaxAttempts THEN s
  ELSE [s EXCEPT !.fwds[f].acks[MaxAttempts] = 0,
                 !.fwds[f].arrived[MaxAttempts] = 0,
                 !.inbox = RetireSeq(@, p, f),
                 !.outbox = RetireSeq(@, p, f)]

\* the callback without `channel.port1.onmessage = null`
retryKeepsHandler(p, s, f) ==
  LET fw == s.fwds[f]
      quiet == fw.attempt = 1 /\ fw.arrived[1] = 0
      s1 == [s EXCEPT !.fwds[f].retry = "fired",
                      !.fwds[f].silent = IF quiet THEN TRUE ELSE @]
  IN routeMessageThroughWindow(p, Retire(p, s1, f), f, fw.msg)

\* the callback giving up after the second attempt
retryGivesUp(p, s, f) ==
  LET fw == s.fwds[f]
      quiet == fw.attempt = 1 /\ fw.arrived[1] = 0
      s1 == [s EXCEPT !.fwds[f].onmessage = @ \ {fw.attempt}, !.fwds[f].retry = "fired",
                      !.fwds[f].silent = IF quiet THEN TRUE ELSE @]
  IN IF fw.attempt >= 2 THEN s1
     ELSE routeMessageThroughWindow(p, Retire(p, s1, f), f, fw.msg)

\* the setTimeout callback of the current attempt
retry(p, s, f) ==
  LET fw == s.fwds[f]
      quiet == fw.attempt = 1 /\ fw.arrived[1] = 0
      s1 == [s EXCEPT !.fwds[f].onmessage = @ \ {fw.attempt}, !.fwds[f].retry = "fired",
                      !.fwds[f].silent = IF quiet THEN TRUE ELSE @]
  IN routeMessageThroughWindow(p, Retire(p, s1, f), f, fw.msg)

\* the handler without clearTimeout(retry)
portOnMessageKeepsTimer(p, s, f) ==
  LET s1 == [s EXCEPT !.fwds[f].sent = @ + 1]
  IN postMessage(s1, RelayMessage("route", namespace[p], context, <<s.fwds[f].msg>>, <<>>))

\* channel.port1.onmessage of the current attempt
portOnMessage(p, s, f) ==
  LET s1 == [s EXCEPT !.fwds[f].retry = "cleared", !.fwds[f].sent = @ + 1]
  IN postMessage(s1, RelayMessage("route", namespace[p], context, <<s.fwds[f].msg>>, <<>>))


\* ------------------------------------------------------------ router and dispatch
InHops(id, hops) == \E i \in 1..Len(hops) : hops[i] = id

RECURSIVE routeMessage(_, _, _)

Settled(s, ev, message, val) ==
  [s EXCEPT !.events = Append(@, [Event(ev, message.transactionId, val) EXCEPT
                                    !.outcome = message.outcome,
                                    !.result = message.result])]

\* handleReply without openTransactions.delete(transactionId)
handleReplyKeepsEntry(p, s, message) ==
  IF message.transactionId \in s.tx
  THEN IF Truthy(message.err)
       THEN Settled(s, "rejected", message, hydrate(message.err))
       ELSE Settled(s, "resolved", message, message.data)
  ELSE Log(s, "ignored", message.transactionId, Undefined)

handleReply(p, s, message) ==
  IF message.transactionId \in s.tx
  THEN LET s1 == IF Truthy(message.err)
                 THEN Settled(s, "rejected", message, hydrate(message.err))
                 ELSE Settled(s, "resolved", message, message.data)
       IN [s1 EXCEPT !.tx = @ \ {message.transactionId}]
  ELSE Log(s, "ignored", message.transactionId, Undefined)

\* the reply built without `data: reply`: the spread keeps the request's data
settleNewMessageKeepsData(p, s, message, reply, err, noHandlerFoundError, how) ==
  LET m1 == IF Truthy(err) THEN [message EXCEPT !.err = serializeError(err)] ELSE message
      out == [m1 EXCEPT !.messageType = "reply",
                        !.origin = Endpoint(context),
                        !.destination = message.origin,
                        !.hops = <<>>,
                        !.outcome = how,
                        !.result = IF how = "returned" THEN reply ELSE err]
      s1 == routeMessage(p, s, out)
  IN IF s1.exc # <<>> THEN s1
     ELSE IF Truthy(err) /\ ~noHandlerFoundError THEN Throw(s1, reply)
     ELSE s1

\* the reply built without `hops: []`: the spread keeps the request's hops
settleNewMessageKeepsHops(p, s, message, reply, err, noHandlerFoundError, how) ==
  LET m1 == IF Truthy(err) THEN [message EXCEPT !.err = serializeError(err)] ELSE message
      out == [m1 EXCEPT !.messageType = "reply",
                        !.data = reply,
                        !.origin = Endpoint(context),
                        !.destination = message.origin,
                        !.outcome = how,
                        !.result = IF how = "returned" THEN reply ELSE err]
      s1 == routeMessage(p, s, out)
  IN IF s1.exc # <<>> THEN s1
     ELSE IF Truthy(err) /\ ~noHandlerFoundError THEN Throw(s1, reply)
     ELSE s1

\* `message` shared by the handleNewMessage calls instead of closed over by
\* each: the reply is made from the request that arrived last
settleNewMessageSharedMessage(p, s, message, reply, err, noHandlerFoundError, how) ==
  LET last == IF s.pend = <<>> THEN message ELSE s.pend[Len(s.pend)]
      m1 == IF Truthy(err) THEN [last EXCEPT !.err = serializeError(err)] ELSE last
      out == [m1 EXCEPT !.messageType = "reply",
                        !.data = reply,
                        !.origin = Endpoint(context),
                        !.destination = last.origin,
                        !.hops = <<>>,
                        !.outcome = how,
                        !.result = IF how = "returned" THEN reply ELSE err]
      s1 == routeMessage(p, s, out)
  IN IF s1.exc # <<>> THEN s1
     ELSE IF Truthy(err) /\ ~noHandlerFoundError THEN Throw(s1, reply)
     ELSE s1

\* the final throw without its `!noHandlerFoundError` condition
settleNewMessageAlwaysThrows(p, s, message, reply, err, noHandlerFoundError, how) ==
  LET m1 == IF Truthy(err) THEN [message EXCEPT !.err = serializeError(err)] ELSE message
      out == [m1 EXCEPT !.messageType = "reply",
                        !.data = reply,
                        !.origin = Endpoint(context),
                        !.destination = message.origin,
                        !.hops = <<>>,
                        !.outcome = how,
                        !.result = IF how = "returned" THEN reply ELSE err]
      s1 == routeMessage(p, s, out)
  IN IF s1.exc # <<>> THEN s1
     ELSE IF Truthy(err) THEN Throw(s1, reply)
     ELSE s1

\* handleNewMessage from `catch` on: reply and err are what the try block left
\* (reply stays undefined unless the handler returned), how is the model's note
\* of the way the try block ended
settleNewMessage(p, s, message, reply, err, noHandlerFoundError, how) ==
  LET m1 == IF Truthy(err) THEN [message EXCEPT !.err = serializeError(err)] ELSE message
      out == [m1 EXCEPT !.messageType = "reply",
                        !.data = reply,
                        !.origin = Endpoint(context),
                        !.destination = message.origin,
                        !.hops = <<>>,
                        !.outcome = how,
                        !.result = IF how = "returned" THEN reply ELSE err]
      s1 == routeMessage(p, s, out)
  IN IF s1.exc # <<>> THEN s1
     ELSE IF Truthy(err) /\ ~noHandlerFoundError THEN Throw(s1, reply)
     ELSE s1

\* handleNewMessage up to `await cb(...)`, or to its end when no handler is registered
handleNewMessage(p, s, message) ==
  IF message.messageID \in onMessageListeners[p]
  THEN [s EXCEPT !.pend = Append(@, message)]
  ELSE settleNewMessage(p, Log(s, "nohandler", message.transactionId, Undefined), message,
                        Undefined,
                        ErrorObj("Error", "Error", NoHandlerMessage(message.messageID)),
                        TRUE, "nohandler")

handleInboundMessage(p, s, message) ==
  Surface(CASE message.messageType = "reply" -> handleReply(p, s, message)
            [] message.messageType = "message" -> handleNewMessage(p, s, message)
            [] OTHER -> s,
          message.transactionId)

\* routeMessage without the `hops.includes(runtimeId)` return
routeMessageNoHopsCheck(p, s, message) ==
  LET m == [message EXCEPT !.hops = Append(@, runtimeId(p))]
  IN IF m.destination = NoEndpoint THEN handleInboundMessage(p, s, m)
     ELSE IF m.destination[1].context # "undefined"
          THEN routeMessageThroughWindow(p, s, Len(s.fwds) + 1, m)
          ELSE s

\* routeMessage checking the namespace before it records the hop
routeMessageChecksFirst(p, s, message) ==
  IF InHops(runtimeId(p), message.hops)
  THEN Log(s, "looped", message.transactionId, Undefined)
  ELSE IF message.destination # NoEndpoint /\ ~ensureNamespaceSet(p)
       THEN Throw([s EXCEPT !.obj = <<message>>], ConfigError)
       ELSE LET m == [message EXCEPT !.hops = Append(@, runtimeId(p))]
            IN IF m.destination = NoEndpoint THEN handleInboundMessage(p, s, m)
               ELSE IF m.destination[1].context # "undefined"
                    THEN routeMessageThroughWindow(p, s, Len(s.fwds) + 1, m)
                    ELSE s

\* routeMessage with hops.unshift(runtimeId) for hops.push(runtimeId)
routeMessagePrependsHop(p, s, message) ==
  IF InHops(runtimeId(p), message.hops)
  THEN Log(s, "looped", message.transactionId, Undefined)
  ELSE LET m == [message EXCEPT !.hops = <<runtimeId(p)>> \o @]
       IN IF m.destination = NoEndpoint THEN handleInboundMessage(p, s, m)
          ELSE IF m.destination[1].context # "undefined"
               THEN routeMessageThroughWindow(p, s, Len(s.fwds) + 1, m)
               ELSE s

\* routeMessage taking every envelope for its own, then forwarding it
routeMessageAlwaysDispatches(p, s, message) ==
  IF InHops(runtimeId(p), message.hops)
  THEN Log(s, "looped", message.transactionId, Undefined)
  ELSE LET m == [message EXCEPT !.hops = Append(@, runtimeId(p))]
           s1 == handleInboundMessage(p, s, m)
       IN IF m.destination # NoEndpoint /\ m.destination[1].context # "undefined"
          THEN routeMessageThroughWindow(p, s1, Len(s1.fwds) + 1, m)
          ELSE s1

routeMessage(p, s, message) ==
  IF InHops(runtimeId(p), message.hops)
  THEN Log(s, "looped", message.transactionId, Undefined)
  ELSE LET m == [message EXCEPT !.hops = Append(@, runtimeId(p))]
       IN IF m.destination = NoEndpoint THEN handleInboundMessage(p, s, m)
          ELSE IF m.destination[1].context # "undefined"
               THEN routeMessageThroughWindow(p, s, Len(s.fwds) + 1, m)
               ELSE s

\* the listener without `data.context !== context`
handleWindowOnMessageNoSelfExclusion(p, s, data) ==
  IF data.cmd = "verify" /\ data.scope = namespace[p]
  THEN [s EXCEPT !.acked = @ + 1]
  ELSE IF data.cmd = "route" /\ data.scope = namespace[p]
       THEN routeMessage(p, s, data.payload[1])
       ELSE s

handleWindowOnMessage(p, s, data) ==
  IF data.cmd = "verify" /\ data.scope = namespace[p] /\ data.context # context
  THEN [s EXCEPT !.acked = @ + 1]
  ELSE IF data.cmd = "route" /\ data.scope = namespace[p] /\ data.context # context
       THEN routeMessage(p, s, data.payload[1])
       ELSE s


\* ------------------------------------------------------------ actions
\* the module loaded in every window
InitBridge ==
  /\ namespace = [p \in Procs |-> UNSET]
  /\ openTransactions = [p \in Procs |-> {}]
  /\ onMessageListeners = [p \in Procs |-> {}]
  /\ inbox = [p \in Procs |-> <<>>]
  /\ outbox = [p \in Procs |-> <<>>]
  /\ fwds = [p \in Procs |-> <<>>]
  /\ pending = [p \in Procs |-> <<>>]
  /\ events = [p \in Procs |-> <<>>]
  /\ listening = [p \in Procs |-> 0]
  /\ transit = [p \in Procs |-> <<>>]
  /\ peerAcks = [p \in Procs |-> 0]
  /\ dups = 0
  /\ nextTid = 1
  /\ posted = 0
  /\ failed = [p \in Procs |-> <<>>]

Init == InitBridge /\ address = <<>> /\ parsed = <<>>

\* the relay queues of the model hold at most MaxQueue message events
Fits(s) == Len(s.inbox) <= MaxQueue /\ Len(s.outbox) <= MaxQueue

\* the end of an event-loop task of instance p that left the local state s
Commit(p, s0, tid) ==
  LET s == Surface(s0, tid)
  IN /\ Fits(s)
     /\ openTransactions' = [openTransactions EXCEPT ![p] = s.tx]
     /\ inbox' = [inbox EXCEPT ![p] = s.inbox]
     /\ outbox' = [outbox EXCEPT ![p] = s.outbox]
     /\ fwds' = [fwds EXCEPT ![p] = s.fwds]
     /\ pending' = [pending EXCEPT ![p] = s.pend]
     /\ events' = [events EXCEPT ![p] = s.events]
     /\ peerAcks' = [peerAcks EXCEPT ![p] = s.acked]

setNamespace(p, nsps) ==
  /\ namespace' = [namespace EXCEPT ![p] = nsps]
  /\ UNCHANGED <<openTransactions, onMessageListeners, inbox, outbox, fwds, pending,
                 events, listening, transit, peerAcks, dups, nextTid>>
  /\ UNCHANGED <<posted, failed, address, parsed>>

\* onMessage(messageID, handler) of the public API
onMessage(p, mid) ==
  /\ mid \notin onMessageListeners[p]
  /\ onMessageListeners' = [onMessageListeners EXCEPT ![p] = @ \cup {mid}]
  /\ UNCHANGED <<namespace, openTransactions, inbox, outbox, fwds, pending, events,
                 listening, transit, peerAcks, dups, nextTid>>
  /\ UNCHANGED <<posted, failed, address, parsed>>

\* sendMessage(messageID, data, destination) of the public API, for an
\* application that sends at most `limit` requests: the transaction is entered
\* in the table and the envelope routed; when routing throws, the caller is left
\* with the envelope object as routeMessage changed it
Send(p, mid, limit) ==
  /\ nextTid <= limit
  /\ LET message == Envelope(nextTid, mid, "message", Endpoint(context),
                             Endpoint("window"), Json("d"))
         s == [Local(p) EXCEPT !.tx = @ \cup {nextTid}]
         s0 == routeMessage(p, s, message)
     IN /\ Commit(p, s0, nextTid)
        /\ failed' = [failed EXCEPT ![p] = IF s0.exc # <<>> THEN Append(@, s0.obj[1]) ELSE @]
  /\ nextTid' = nextTid + 1
  /\ UNCHANGED <<namespace, onMessageListeners, listening, transit, dups>>
  /\ UNCHANGED <<posted, address, parsed>>

sendMessage(p, mid) == Send(p, mid, MaxTx)

\* the window's next message event reaches the module's listener
WindowOnMessage(p) ==
  /\ inbox[p] # <<>>
  /\ LET data == Head(inbox[p])
         s == [Local(p) EXCEPT !.inbox = Tail(@)]
     IN Commit(p, handleWindowOnMessage(p, s, data),
               IF data.payload = <<>> THEN 0 ELSE data.payload[1].transactionId)
  /\ UNCHANGED <<namespace, onMessageListeners, listening, transit, dups, nextTid>>
  /\ UNCHANGED <<posted, failed, address, parsed>>

Remove(q, i) == [j \in 1..(Len(q) - 1) |-> IF j < i THEN q[j] ELSE q[j + 1]]

\* the caller of a routeMessage call that threw calls it again with the same
\* envelope object
routeMessageAgain(p, i) ==
  /\ i \in 1..Len(failed[p])
  /\ Commit(p, routeMessage(p, Local(p), failed[p][i]), failed[p][i].transactionId)
  /\ failed' = [failed EXCEPT ![p] = Remove(@, i)]
  /\ UNCHANGED <<namespace, onMessageListeners, listening, transit, dups, nextTid,
                 posted, address, parsed>>

\* the handler call of a suspended handleNewMessage returns a value
HandlerReturns(p, i, v) ==
  /\ i \in 1..Len(pending[p])
  /\ LET message == pending[p][i]
         s == Log([Local(p) EXCEPT !.pend = Remove(@, i)],
                  "returned", message.transactionId, v)
     IN Commit(p, settleNewMessage(p, s, message, v, Undefined, FALSE, "returned"),
               message.transactionId)
  /\ UNCHANGED <<namespace, onMessageListeners, listening, transit, dups, nextTid>>
  /\ UNCHANGED <<posted, failed, address, parsed>>

\* the handler call of a suspended handleNewMessage throws, or rejects
HandlerThrows(p, i, e) ==
  /\ i \in 1..Len(pending[p])
  /\ LET message == pending[p][i]
         s == Log([Local(p) EXCEPT !.pend = Remove(@, i)],
                  "threw", message.transactionId, e)
     IN Commit(p, settleNewMessage(p, s, message, Undefined, e, FALSE, "threw"),
               message.transactionId)
  /\ UNCHANGED <<namespace, onMessageListeners, listening, transit, dups, nextTid>>
  /\ UNCHANGED <<posted, failed, address, parsed>>

\* an acknowledgment arrives on port1 of channel c of forwarder f
PortMessage(p, f, c) ==
  /\ f \in 1..Len(fwds[p])
  /\ fwds[p][f].acks[c] > 0
  /\ LET s == [Local(p) EXCEPT !.fwds[f].acks[c] = @ - 1, !.fwds[f].arrived[c] = @ + 1]
     IN Commit(p, IF c \in s.fwds[f].onmessage THEN portOnMessage(p, s, f) ELSE s,
               s.fwds[f].msg.transactionId)
  /\ UNCHANGED <<namespace, onMessageListeners, listening, transit, dups, nextTid>>
  /\ UNCHANGED <<posted, failed, address, parsed>>

\* the retry timer of forwarder f fires
RetryTimeout(p, f) ==
  /\ f \in 1..Len(fwds[p])
  /\ fwds[p][f].retry = "pending"
  /\ Commit(p, retry(p, Local(p), f), fwds[p][f].msg.transactionId)
  /\ UNCHANGED <<namespace, onMessageListeners, listening, transit, dups, nextTid>>
  /\ UNCHANGED <<posted, failed, address, parsed>>

\* ------------------------------------------------------------ the peers on the window
PeerAttach(p) ==
  /\ listening[p] = 0
  /\ listening' = [listening EXCEPT ![p] = @ + 1]
  /\ UNCHANGED <<namespace, openTransactions, onMessageListeners, inbox, outbox, fwds,
                 pending, events, transit, peerAcks, dups, nextTid>>
  /\ UNCHANGED <<posted, failed, address, parsed>>

\* one more peer starts listening on a window that has a peer already
PeerAttachMore(p) ==
  /\ listening[p] > 0
  /\ listening[p] < MaxPeers
  /\ listening' = [listening EXCEPT ![p] = @ + 1]
  /\ UNCHANGED <<namespace, openTransactions, onMessageListeners, inbox, outbox, fwds,
                 pending, events, transit, peerAcks, dups, nextTid>>
  /\ UNCHANGED <<posted, failed, address, parsed>>

PeerAccepts(m) == m.scope = SharedNamespace /\ m.context # PeerContext

\* a probe reaches the peers: each listening peer posts `true` on its port
PeerProbed(p) ==
  /\ outbox[p] # <<>>
  /\ Head(outbox[p]).cmd = "verify"
  /\ LET m == Head(outbox[p])
         port == m.port[1]
     IN /\ outbox' = [outbox EXCEPT ![p] = Tail(@)]
        /\ fwds' = IF PeerAccepts(m) /\ port.chan # 0
                   THEN [fwds EXCEPT ![p][port.fwd].acks[port.chan] = @ + listening[p]]
                   ELSE fwds
  /\ UNCHANGED <<namespace, openTransactions, onMessageListeners, inbox, pending, events,
                 listening, transit, peerAcks, dups, nextTid>>
  /\ UNCHANGED <<posted, failed, address, parsed>>

\* a delivery reaches the peers: they take the envelope towards window q, clear
\* its destination for the terminal leg and probe window q
PeerCarries(p, q) ==
  /\ outbox[p] # <<>>
  /\ Head(outbox[p]).cmd = "route"
  /\ LET m == Head(outbox[p])
     IN /\ outbox' = [outbox EXCEPT ![p] = Tail(@)]
        /\ IF PeerAccepts(m) /\ listening[p] > 0
           THEN /\ Len(inbox[q]) < MaxQueue
                /\ Len(transit[q]) < MaxQueue
                /\ transit' = [transit EXCEPT
                                 ![q] = Append(@, [m.payload[1] EXCEPT !.destination = NoEndpoint])]
                /\ inbox' = [inbox EXCEPT
                               ![q] = Append(@, RelayMessage("verify", SharedNamespace,
                                                             PeerContext, <<>>, PeerPort))]
           ELSE UNCHANGED <<transit, inbox>>
  /\ UNCHANGED <<namespace, openTransactions, onMessageListeners, fwds, pending, events,
                 listening, peerAcks, dups, nextTid>>
  /\ UNCHANGED <<posted, failed, address, parsed>>

\* the peers, acknowledged by window q, broadcast the envelope they hold for it;
\* the relay may deliver it more than once (copies = 2)
PeerDelivers(q, copies) ==
  /\ peerAcks[q] > 0
  /\ transit[q] # <<>>
  /\ Len(inbox[q]) + copies <= MaxQueue
  /\ copies = 2 => dups < MaxDup /\ Head(transit[q]).messageType = "reply"
  /\ dups' = IF copies = 2 THEN dups + 1 ELSE dups
  /\ peerAcks' = [peerAcks EXCEPT ![q] = @ - 1]
  /\ transit' = [transit EXCEPT ![q] = Tail(@)]
  /\ LET m == RelayMessage("route", SharedNamespace, PeerContext, <<Head(transit[q])>>, <<>>)
     IN inbox' = [inbox EXCEPT ![q] = IF copies = 2 THEN @ \o <<m, m>> ELSE Append(@, m)]
  /\ UNCHANGED <<namespace, openTransactions, onMessageListeners, outbox, fwds, pending,
                 events, listening, nextTid>>
  /\ UNCHANGED <<posted, failed, address, parsed>>

\* a delivery reaches the peers and goes no further
PeerDrops(p) ==
  /\ outbox[p] # <<>>
  /\ Head(outbox[p]).cmd = "route"
  /\ outbox' = [outbox EXCEPT ![p] = Tail(@)]
  /\ UNCHANGED <<namespace, openTransactions, onMessageListeners, inbox, fwds, pending,
                 events, listening, transit, peerAcks, dups, nextTid>>
  /\ UNCHANGED <<posted, failed, address, parsed>>

\* ------------------------------------------------------------ other scripts on the window
\* the runtime identity of the instance a relay message comes from
OtherId == <<"rt", "peer">>
InOrigin(tid) == IF tid = 1 THEN Endpoint(PeerContext) ELSE Endpoint("devtools")

\* an envelope on its terminal leg, as the previous hop hands it over
Inbound(type, tid) ==
  [Envelope(tid, "ping", type, InOrigin(tid), NoEndpoint, Json("d")) EXCEPT !.hops = <<OtherId>>]

\* the envelopes a delivery for instance p may carry: requests and replies on
\* their terminal leg; a request still to be forwarded; one that went through p
\* before; one that arrives with an err field
InboundEnvelopes(p) ==
  {Inbound(type, tid) : type \in {"message", "reply"}, tid \in 1..MaxOpen}
  \cup {[Inbound("message", 1) EXCEPT !.destination = Endpoint("devtools")],
        [Inbound("message", 1) EXCEPT !.hops = <<runtimeId(p), OtherId>>],
        [Inbound("message", 1) EXCEPT !.err = PlainObj("Error", <<"old">>)]}

\* scope of a relay message (UNSET: the field is missing) and its context
Scopes == {UNSET, SharedNamespace, ""}
RelayContexts == {context, PeerContext}

\* the deliveries of a peer that shares the namespace
InboundRelay(p) ==
  {RelayMessage("route", SharedNamespace, PeerContext, <<e>>, <<>>) : e \in InboundEnvelopes(p)}

\* probes and deliveries of any scope and context
AnyRelay ==
  {RelayMessage("verify", sc, cx, <<>>, PeerPort) : sc \in Scopes, cx \in RelayContexts}
  \cup {RelayMessage("route", sc, cx, <<Inbound("reply", 1)>>, <<>>) :
          sc \in Scopes, cx \in RelayContexts}

\* deliveries of a request, for the instance or to be forwarded by it, from a
\* peer of the namespace and from one whose namespace is the empty string
ConfigRelay ==
  {RelayMessage("route", sc, PeerContext, <<e>>, <<>>) :
     sc \in {SharedNamespace, ""},
     e \in {Inbound("message", 1),
            [Inbound("message", 1) EXCEPT !.destination = Endpoint("devtools")]}}

\* a script on window p posts relay message m
ForeignPost(p, m) ==
  /\ posted < MaxPosts
  /\ Len(inbox[p]) < MaxQueue
  /\ posted' = posted + 1
  /\ inbox' = [inbox EXCEPT ![p] = Append(@, m)]
  /\ UNCHANGED <<namespace, openTransactions, onMessageListeners, outbox, fwds, pending,
                 events, listening, transit, peerAcks, dups, nextTid, failed, address, parsed>>

\* ------------------------------------------------------------ parsing an address
InitParse == InitBridge /\ address \in Addresses /\ parsed = <<>>

ParseEndpoint ==
  /\ parsed = <<>>
  /\ parsed' = <<parseEndpoint(address)>>
  /\ UNCHANGED <<namespace, openTransactions, onMessageListeners, inbox, outbox, fwds,
                 pending, events, listening, transit, peerAcks, dups, nextTid, posted,
                 failed, address>>

NextParse == ParseEndpoint

SpecParse == InitParse /\ [][NextParse]_vars

\* what the instances themselves do
Engine ==
  \/ \E p \in Senders, mid \in MsgIDs : sendMessage(p, mid)
  \/ \E p \in Procs : WindowOnMessage(p)
  \/ \E p \in Procs, c \in 1..MaxAttempts : \E f \in 1..Len(fwds[p]) : PortMessage(p, f, c)
  \/ \E p \in Procs : \E f \in 1..Len(fwds[p]) : RetryTimeout(p, f)

\* The whole exchange: one listening peer per window, which carries deliveries
\* from window to window.
Next ==
  \/ Engine
  \/ \E p \in Procs : setNamespace(p, SharedNamespace)
  \/ \E p \in Handlers, mid \in MsgIDs : onMessage(p, mid)
  \/ \E p \in Procs, v \in ReturnValues : \E i \in 1..Len(pending[p]) : HandlerReturns(p, i, v)
  \/ \E p \in Procs, e \in ThrownValues : \E i \in 1..Len(pending[p]) : HandlerThrows(p, i, e)
  \/ \E p \in Procs : PeerAttach(p)
  \/ \E p \in Procs : PeerProbed(p)
  \/ \E p, q \in Procs : PeerCarries(p, q)
  \/ \E q \in Procs, copies \in 1..2 : PeerDelivers(q, copies)

Spec == Init /\ [][Next]_vars

\* The forwarder against any number of peers: the peers acknowledge probes and
\* take deliveries, which go no further.
NextFwd ==
  \/ Engine
  \/ \E p \in Procs, nsps \in NamespaceArgs : setNamespace(p, nsps)
  \/ \E p \in Procs : PeerAttach(p)
  \/ \E p \in Procs : PeerAttachMore(p)
  \/ \E p \in Procs : PeerProbed(p)
  \/ \E p \in Procs : PeerDrops(p)
  \/ \E p \in Procs : \E i \in 1..Len(failed[p]) : routeMessageAgain(p, i)

SpecFwd == Init /\ [][NextFwd]_vars

\* One instance and the requests and replies its window brings from a peer of
\* its namespace: handlers suspended in any number and settled in any order,
\* while the namespace is set, cleared and set again.  No peer acknowledges, and
\* the exchange is over before a retry timer fires.
NextIn ==
  \/ \E p \in Handlers, mid \in MsgIDs : Send(p, mid, MaxOpen)
  \/ \E p \in Handlers, nsps \in NamespaceArgs : setNamespace(p, nsps)
  \/ \E p \in Handlers, mid \in MsgIDs : onMessage(p, mid)
  \/ \E p \in Handlers : \E m \in InboundRelay(p) : ForeignPost(p, m)
  \/ \E p \in Handlers : WindowOnMessage(p)
  \/ \E p \in Handlers, v \in ReturnValues : \E i \in 1..Len(pending[p]) : HandlerReturns(p, i, v)
  \/ \E p \in Handlers, e \in ThrownValues : \E i \in 1..Len(pending[p]) : HandlerThrows(p, i, e)
  \/ \E p \in Handlers : PeerProbed(p)

SpecIn == Init /\ [][NextIn]_vars

\* One instance and the relay messages of its window, of any scope and context,
\* its own among them.
NextRelay ==
  \/ \E p \in Senders, mid \in MsgIDs : sendMessage(p, mid)
  \/ \E p \in Senders, nsps \in NamespaceArgs : setNamespace(p, nsps)
  \/ \E p \in Senders : \E m \in AnyRelay : ForeignPost(p, m)
  \/ \E p \in Senders : WindowOnMessage(p)
  \/ \E p \in Senders, c \in 1..MaxAttempts : \E f \in 1..Len(fwds[p]) : PortMessage(p, f, c)
  \/ \E p \in Senders : \E f \in 1..Len(fwds[p]) : RetryTimeout(p, f)
  \/ \E p \in Senders : PeerAttach(p)
  \/ \E p \in Senders : PeerProbed(p)
  \/ \E p \in Senders : PeerDrops(p)

SpecRelay == Init /\ [][NextRelay]_vars

\* One instance without handlers whose namespace is set, cleared and set again
\* while it sends, replies, forwards and retries.  No peer acknowledges.
NextCfg ==
  \/ \E p \in Handlers, mid \in MsgIDs : sendMessage(p, mid)
  \/ \E p \in Handlers : \E i \in 1..Len(failed[p]) : routeMessageAgain(p, i)
  \/ \E p \in Handlers, nsps \in NamespaceArgs : setNamespace(p, nsps)
  \/ \E p \in Handlers : \E m \in ConfigRelay : ForeignPost(p, m)
  \/ \E p \in Handlers : WindowOnMessage(p)
  \/ \E p \in Handlers : \E f \in 1..Len(fwds[p]) : RetryTimeout(p, f)
  \/ \E p \in Handlers : PeerProbed(p)

SpecCfg == Init /\ [][NextCfg]_vars

\* The forwarder against peers that, once listening, acknowledge a probe before
\* its timer fires: no timeout while listening peers have the current attempt's
\* probe to answer or their acknowledgment is on its way.  The event loop runs
\* every task that is due.
AckDue(p, f) ==
  /\ listening[p] > 0
  /\ \/ fwds[p][f].acks[fwds[p][f].attempt] > 0
     \/ \E i \in 1..Len(outbox[p]) : outbox[p][i].port = Port(p, f, fwds[p][f].attempt)

TimelyRetryTimeout(p, f) == RetryTimeout(p, f) /\ ~AckDue(p, f)

NextLive ==
  \/ \E p \in Senders, mid \in MsgIDs : sendMessage(p, mid)
  \/ \E p \in Procs : setNamespace(p, SharedNamespace)
  \/ \E p \in Procs : WindowOnMessage(p)
  \/ \E p \in Procs, c \in 1..MaxAttempts : \E f \in 1..Len(fwds[p]) : PortMessage(p, f, c)
  \/ \E p \in Procs : \E f \in 1..Len(fwds[p]) : TimelyRetryTimeout(p, f)
  \/ \E p \in Procs : PeerAttach(p)
  \/ \E p \in Procs : PeerAttachMore(p)
  \/ \E p \in Procs : PeerProbed(p)
  \/ \E p \in Procs : PeerDrops(p)

SpecLive ==
  /\ Init /\ [][NextLive]_vars
  /\ \A p \in Procs : WF_vars(WindowOnMessage(p))
  /\ \A p \in Procs : WF_vars(PeerProbed(p))
  /\ \A p \in Procs : WF_vars(PeerDrops(p))
  /\ \A p \in Procs, f \in 1..MaxTx : WF_vars(TimelyRetryTimeout(p, f))
  /\ \A p \in Procs, f \in 1..MaxTx, c \in 1..MaxAttempts : WF_vars(PortMessage(p, f, c))


\* ------------------------------------------------------------ claims: router, dispatch
\* the next message event of window p is a delivery the module accepts
AcceptedRoute(p) ==
  /\ inbox[p] # <<>>
  /\ Head(inbox[p]).cmd = "route"
  /\ Head(inbox[p]).scope = namespace[p]
  /\ Head(inbox[p]).context # context
Arriving(p) == Head(inbox[p]).payload[1]
Visited(p) == InHops(runtimeId(p), Arriving(p).hops)
IsSettlement(e) == e.ev \in {"resolved", "rejected"}

\* what window p has besides its event log and its inbox stays as it is
RestUnchanged(p) ==
  /\ openTransactions'[p] = openTransactions[p]
  /\ onMessageListeners'[p] = onMessageListeners[p]
  /\ pending'[p] = pending[p]
  /\ fwds'[p] = fwds[p]
  /\ outbox'[p] = outbox[p]
  /\ peerAcks'[p] = peerAcks[p]

\* C1: routing an envelope whose hops already hold the local runtime identity is
\* a no-op: transaction and listener tables unchanged, no handler invoked, no
\* transaction settled, nothing posted on the relay, no error raised; the only
\* trace is the model's "looped" note.
C1_VisitedIsNoOp ==
  [][\A p \in Procs :
       (AcceptedRoute(p) /\ Visited(p) /\ WindowOnMessage(p))
       => /\ RestUnchanged(p)
          /\ inbox'[p] = Tail(inbox[p])
          /\ events'[p] = Append(events[p],
                                 Event("looped", Arriving(p).transactionId, Undefined))]_vars

C1_Witness ==
  \E p \in Procs : \E i \in 1..Len(events[p]) : events[p][i].ev = "looped"

\* C2: when the reply made from a handler's return value v is dispatched in the
\* context that holds the pending transaction, the continuation is resolved with
\* exactly v and the transaction leaves the table; a settled transaction is never
\* in the table again.
C2_ReplyResolvesWithReturnValue ==
  /\ [][\A p \in Procs :
          (/\ AcceptedRoute(p) /\ ~Visited(p)
           /\ Arriving(p).messageType = "reply"
           /\ Arriving(p).outcome = "returned"
           /\ Arriving(p).transactionId \in openTransactions[p]
           /\ WindowOnMessage(p))
          => /\ Len(events'[p]) = Len(events[p]) + 1
             /\ LET e == events'[p][Len(events'[p])]
                IN /\ e.ev = "resolved"
                   /\ e.tid = Arriving(p).transactionId
                   /\ e.val = Arriving(p).result
             /\ Arriving(p).transactionId \notin openTransactions'[p]]_vars
  /\ [](\A p \in Procs : \A i \in 1..Len(events[p]) :
          IsSettlement(events[p][i]) => events[p][i].tid \notin openTransactions[p])

C2_Witness ==
  \E p, q \in Procs : \E i \in 1..Len(events[p]) : \E j \in 1..Len(events[q]) :
    /\ events[q][j].ev = "returned"
    /\ events[q][j].val = Json("v1")
    /\ events[p][i].ev = "resolved"
    /\ events[p][i].tid = events[q][j].tid
    /\ events[p][i].val = Json("v1")
    /\ events[p][i].tid \notin openTransactions[p]

\* C3: for every handler failure, whatever the thrown value, the reply routed
\* back carries the serialized error and the sender's continuation is rejected,
\* never resolved, with an error of the thrown error's name and message.
C3_FailureRejectsSender ==
  /\ \A p \in Procs : \A f \in 1..Len(fwds[p]) :
       fwds[p][f].msg.outcome = "threw"
       => /\ Truthy(fwds[p][f].msg.err)
          /\ fwds[p][f].msg.err = serializeError(fwds[p][f].msg.result)
  /\ \A p \in Procs : \A i \in 1..Len(events[p]) :
       (IsSettlement(events[p][i]) /\ events[p][i].outcome = "threw")
       => /\ events[p][i].ev = "rejected"
          /\ events[p][i].val.name = events[p][i].result.name
          /\ events[p][i].val.message = events[p][i].result.message

\* C4: for every handler failure (here: of an error object), once the failed
\* reply is routed the dispatch fails locally with the error the handler threw.
C4_FailureRaisedLocally ==
  \A p \in Procs : \A i \in 1..Len(events[p]) :
    (events[p][i].ev = "threw" /\ Truthy(events[p][i].val))
    => /\ i < Len(events[p])
       /\ events[p][i + 1].ev = "raised"
       /\ events[p][i + 1].val = events[p][i].val

\* C5: a 'message' envelope for a messageID without handler makes the context
\* route exactly one reply, whose err names the context and the messageID, and
\* raises nothing locally; that reply rejects the sender's continuation.
C5_NoHandlerRepliesWithoutRaising ==
  /\ [][\A p \in Procs :
          (/\ AcceptedRoute(p) /\ ~Visited(p)
           /\ Arriving(p).messageType = "message"
           /\ Arriving(p).destination = NoEndpoint
           /\ Arriving(p).messageID \notin onMessageListeners[p]
           /\ WindowOnMessage(p))
          => /\ Len(fwds'[p]) = Len(fwds[p]) + 1
             /\ \A f \in 1..Len(fwds[p]) : fwds'[p][f] = fwds[p][f]
             /\ LET r == fwds'[p][Len(fwds'[p])].msg
                IN /\ r.messageType = "reply"
                   /\ r.transactionId = Arriving(p).transactionId
                   /\ r.destination = Arriving(p).origin
                   /\ r.data = Undefined
                   /\ r.err = PlainObj("Error", <<"[webext-bridge] No handler registered in",
                                                  "window", "to accept messages with id",
                                                  Arriving(p).messageID>>)
             /\ Len(outbox'[p]) = Len(outbox[p]) + 1
             /\ outbox'[p][Len(outbox'[p])].cmd = "verify"
             /\ pending'[p] = pending[p]
             /\ events'[p] = Append(events[p],
                                    Event("nohandler", Arriving(p).transactionId, Undefined))]_vars
  /\ [](\A p \in Procs : \A i \in 1..Len(events[p]) :
          (IsSettlement(events[p][i]) /\ events[p][i].outcome = "nohandler")
          => /\ events[p][i].ev = "rejected"
             /\ events[p][i].val.name = "Error"
             /\ \E mid \in MsgIDs :
                  events[p][i].val.message = <<"[webext-bridge] No handler registered in",
                                               "window", "to accept messages with id", mid>>)

C5_Witness ==
  \E p \in Procs : \E i \in 1..Len(events[p]) :
    events[p][i].ev = "rejected" /\ events[p][i].outcome = "nohandler"

\* C6: the continuation of a transactionId is settled at most once, by the first
\* matching reply; a reply whose transactionId is not in the table raises no
\* error, settles nothing and leaves the table as it is.
C6_SettledAtMostOnce ==
  /\ [](\A p \in Procs : \A i, j \in 1..Len(events[p]) :
          (IsSettlement(events[p][i]) /\ IsSettlement(events[p][j])
           /\ events[p][i].tid = events[p][j].tid) => i = j)
  /\ [][\A p \in Procs :
          (/\ AcceptedRoute(p) /\ ~Visited(p)
           /\ Arriving(p).messageType = "reply"
           /\ Arriving(p).destination = NoEndpoint
           /\ WindowOnMessage(p))
          => IF Arriving(p).transactionId \in openTransactions[p]
             THEN /\ Len(events'[p]) = Len(events[p]) + 1
                  /\ IsSettlement(events'[p][Len(events'[p])])
                  /\ events'[p][Len(events'[p])].tid = Arriving(p).transactionId
                  /\ openTransactions'[p] = openTransactions[p] \ {Arriving(p).transactionId}
             ELSE /\ RestUnchanged(p)
                  /\ events'[p] = Append(events[p],
                                         Event("ignored", Arriving(p).transactionId, Undefined))]_vars

C6_Witness ==
  \E p \in Procs : \E i, j \in 1..Len(events[p]) :
    /\ i < j
    /\ IsSettlement(events[p][i])
    /\ events[p][j].ev = "ignored"
    /\ events[p][j].tid = events[p][i].tid


\* ------------------------------------------------------------ claims: forwarder
Forwarders == {pf \in Procs \X (1..MaxTx) : pf[2] <= Len(fwds[pf[1]])}
Fw(pf) == fwds[pf[1]][pf[2]]
Posted(p) == Len(outbox'[p]) = Len(outbox[p]) + 1
LastPosted(p) == outbox'[p][Len(outbox'[p])]

C8_AtMostOneDelivery ==
  \A pf \in Forwarders : Fw(pf).sent <= 1

\* C9: a delivery is broadcast only in the task that receives an acknowledgment
\* on the channel of the forwarder's current attempt, whose timer has not fired;
\* no delivery precedes every acknowledgment.
C9_ConfirmThenSend ==
  /\ [][\A p \in Procs :
          (Posted(p) /\ LastPosted(p).cmd = "route")
          => \E f \in 1..Len(fwds[p]) :
               LET fw == fwds[p][f]
               IN /\ LastPosted(p).payload = <<fw.msg>>
                  /\ fw.retry \in {"pending", "cleared"}
                  /\ fw.attempt \in fw.onmessage
                  /\ fw.acks[fw.attempt] > 0
                  /\ fwds'[p][f].acks[fw.attempt] = fw.acks[fw.attempt] - 1
                  /\ fwds'[p][f].sent = fw.sent + 1]_vars
  /\ [](\A pf \in Forwarders :
          Fw(pf).sent > 0 => \E c \in 1..MaxAttempts : Fw(pf).arrived[c] > 0)

C9_Witness ==
  \E pf \in Forwarders :
    /\ Fw(pf).sent = 1
    /\ \E i \in 1..Len(outbox[pf[1]]) :
         /\ outbox[pf[1]][i].cmd = "route"
         /\ outbox[pf[1]][i].payload = <<Fw(pf).msg>>

\* C10: every timeout starts a new attempt for the same envelope (new channel
\* with the handler, timer armed again, one probe and no delivery broadcast),
\* whatever the number of attempts before; and once peers listen and acknowledge
\* in time, a forwarder still trying eventually broadcasts the delivery.
C10_RetriesUntilDelivered ==
  /\ [][\A p \in Procs : \A f \in 1..Len(fwds[p]) :
          TimelyRetryTimeout(p, f)
          => /\ fwds'[p][f].retry = "pending"
             /\ fwds'[p][f].msg = fwds[p][f].msg
             /\ fwds'[p][f].sent = fwds[p][f].sent
             /\ fwds'[p][f].onmessage = {fwds'[p][f].attempt}
             /\ fwds'[p][f].acks[fwds'[p][f].attempt] = 0
             /\ Posted(p)
             /\ LastPosted(p).cmd = "verify"
             /\ LastPosted(p).port = Port(p, f, fwds'[p][f].attempt)
             /\ \A i \in 1..Len(outbox[p]) : outbox'[p][i].port # LastPosted(p).port]_vars
  /\ \A p \in Procs : \A f \in 1..MaxTx :
       (f <= Len(fwds[p]) /\ listening[p] > 0 /\ fwds[p][f].retry = "pending")
       ~> (f <= Len(fwds[p]) /\ fwds[p][f].sent >= 1)

C10_Witness ==
  \E pf \in Forwarders :
    /\ Fw(pf).silent
    /\ Fw(pf).attempt = MaxAttempts
    /\ Fw(pf).arrived[MaxAttempts] > 0
    /\ Fw(pf).sent >= 1


\* ------------------------------------------------------------ claims: configuration
Misconfigured(p) == namespace[p] \in {UNSET, ""}
IsConfigError(e) ==
  /\ e.ev = "raised"
  /\ e.val = ErrorObj("Error", "Error", <<"Call Bridge#setNamespace(nsps) to isolate your app">>)

\* the message events q once the channel of forwarder f is given up
GivenUp(q, p, f) == IF fwds[p][f].attempt < MaxAttempts THEN q ELSE RetireSeq(q, p, f)

\* the task of instance p ends with the configuration error raised and leaves
\* the relay (inb, outb: the message events due when the task began) and the
\* forwarders alone
FailsLocally(p, inb, outb, tid) ==
  /\ inbox'[p] = inb
  /\ outbox'[p] = outb
  /\ Len(fwds'[p]) = Len(fwds[p])
  /\ \A f \in 1..Len(fwds[p]) :
       /\ fwds'[p][f].attempt = fwds[p][f].attempt
       /\ fwds'[p][f].retry = "pending" => fwds[p][f].retry = "pending"
  /\ Len(events'[p]) > Len(events[p])
  /\ IsConfigError(events'[p][Len(events'[p])])
  /\ events'[p][Len(events'[p])].tid = tid

\* C11: with the namespace unset or empty, routing an envelope that has a
\* destination (a request sent, a reply to a request, an envelope to forward, a
\* retry) raises the configuration error locally: no probe, no delivery, no new
\* timer, and no envelope anywhere carries that error.
C11_MisconfigurationFailsLocally ==
  /\ [][\A p \in Procs :
          Misconfigured(p)
          => /\ (\E mid \in MsgIDs : sendMessage(p, mid)) => FailsLocally(p, inbox[p], outbox[p], nextTid)
             /\ (AcceptedRoute(p) /\ ~Visited(p) /\ WindowOnMessage(p))
                => FailsLocally(p, Tail(inbox[p]), outbox[p], Arriving(p).transactionId)
             /\ \A f \in 1..Len(fwds[p]) :
                  RetryTimeout(p, f)
                  => /\ FailsLocally(p, GivenUp(inbox[p], p, f), GivenUp(outbox[p], p, f),
                                     fwds[p][f].msg.transactionId)
                     /\ fwds'[p][f].retry = "fired"
                     /\ fwds'[p][f].onmessage = {}]_vars
  /\ [](\A p \in Procs : \A f \in 1..Len(fwds[p]) :
          fwds[p][f].msg.err.message # <<"Call Bridge#setNamespace(nsps) to isolate your app">>)

C11_Witness ==
  \E p \in Procs : \E f \in 1..Len(fwds[p]) : \E i, j, k \in 1..Len(events[p]) :
    /\ fwds[p][f].retry = "fired"
    /\ IsConfigError(events[p][i]) /\ events[p][i].tid = fwds[p][f].msg.transactionId
    /\ events[p][j].ev = "nohandler"
    /\ k = j + 1 /\ IsConfigError(events[p][k])


\* ------------------------------------------------------------ claims: relay filter
\* C12: a relay message is acted upon only if its scope is the instance's
\* namespace and its context is not "window": then a probe is acknowledged once
\* on its port and a delivery's payload is routed; any other relay message, the
\* instance's own probes and deliveries among them, is taken off the queue and
\* changes nothing else.  (Before any setNamespace call the namespace is
\* undefined, and it is a message without scope field that compares equal.)
C12_OnlyOwnScopeOtherContext ==
  [][\A p \in Procs :
       WindowOnMessage(p)
       => LET m == Head(inbox[p])
          IN /\ inbox'[p] = Tail(inbox[p])
             /\ IF m.scope = namespace[p] /\ m.context # "window"
                THEN IF m.cmd = "verify"
                     THEN /\ peerAcks'[p] = peerAcks[p] + 1
                          /\ events'[p] = events[p]
                          /\ fwds'[p] = fwds[p]
                          /\ outbox'[p] = outbox[p]
                          /\ openTransactions'[p] = openTransactions[p]
                     ELSE /\ peerAcks'[p] = peerAcks[p]
                          /\ Len(events'[p]) = Len(events[p]) + 1
                          /\ events'[p][Len(events'[p])].ev \in {"resolved", "ignored"}
                          /\ events'[p][Len(events'[p])].tid = m.payload[1].transactionId
                ELSE /\ RestUnchanged(p)
                     /\ events'[p] = events[p]
                     /\ inbox'[p] = Tail(inbox[p])]_vars

\* two relay messages of other scripts went through the listener: one probe was
\* acknowledged, one delivery was routed, and the instance's own probe and
\* delivery went through it without a trace
C12_Witness ==
  \E p \in Procs :
    /\ posted = MaxPosts
    /\ inbox[p] = <<>>
    /\ peerAcks[p] = 1
    /\ Len(events[p]) = 1
    /\ Len(fwds[p]) = 1 /\ fwds[p][1].sent = 1


\* ------------------------------------------------------------ claims: replies
\* the request whose handler call ends in this step of instance p, if any
Settling(p, i) ==
  \/ \E v \in ReturnValues : HandlerReturns(p, i, v)
  \/ \E e \in ThrownValues : HandlerThrows(p, i, e)

\* the next message event of instance p is a request for it that finds no handler
Unhandled(p) ==
  /\ AcceptedRoute(p) /\ ~Visited(p)
  /\ Arriving(p).messageType = "message"
  /\ Arriving(p).destination = NoEndpoint
  /\ Arriving(p).messageID \notin onMessageListeners[p]

\* this step hands exactly one new envelope to the forwarder
NewForward(p) ==
  /\ Len(fwds'[p]) = Len(fwds[p]) + 1
  /\ \A f \in 1..Len(fwds[p]) : fwds'[p][f] = fwds[p][f]
Forwarded(p) == fwds'[p][Len(fwds'[p])].msg

\* C13: the reply built for a request M (handler returned, handler threw, no
\* handler) is of type 'reply', has M's transactionId and messageID, the
\* "window" context as origin, M's origin as destination, and hops that hold
\* the local identity alone once it is routed.
C13_ReplyAddressedToOrigin ==
  [][\A p \in Procs :
       LET IsReplyTo(M) ==
             /\ NewForward(p)
             /\ Forwarded(p).messageType = "reply"
             /\ Forwarded(p).transactionId = M.transactionId
             /\ Forwarded(p).messageID = M.messageID
             /\ Forwarded(p).origin = <<[context |-> "window", tabId |-> "null"]>>
             /\ Forwarded(p).destination = M.origin
             /\ Forwarded(p).hops = <<runtimeId(p)>>
       IN /\ \A i \in 1..Len(pending[p]) :
               (Settling(p, i) /\ namespace[p] = SharedNamespace) => IsReplyTo(pending[p][i])
          /\ (Unhandled(p) /\ WindowOnMessage(p)) => IsReplyTo(Arriving(p))]_vars

C13_Witness ==
  \E p \in Procs : \E f, g \in 1..Len(fwds[p]) :
    /\ fwds[p][f].msg.outcome = "nohandler"
    /\ fwds[p][g].msg.outcome = "threw"
    /\ fwds[p][g].msg.destination = Endpoint("devtools")
    /\ \A k \in {f, g} : fwds[p][k].msg.hops = <<runtimeId(p)>>


\* ------------------------------------------------------------ claims: terminal or forward
\* C14: an envelope not yet visited whose destination is absent is dispatched
\* locally and is not forwarded (a forwarder made in that step carries the reply
\* to it); an envelope whose destination names a context (a request sent, the
\* reply to a request) goes to the forwarder and is not dispatched: no handler
\* call, no settlement; the forwarder keeps the envelope as it got it and the
\* delivery it broadcasts carries that envelope, destination included.
C14_TerminalOrForward ==
  [][\A p \in Procs :
       /\ (AcceptedRoute(p) /\ ~Visited(p) /\ Arriving(p).destination = NoEndpoint
           /\ WindowOnMessage(p))
          => /\ Len(events'[p]) > Len(events[p]) \/ Len(pending'[p]) > Len(pending[p])
             /\ outbox'[p] # outbox[p] => LastPosted(p).cmd = "verify"
             /\ \A f \in (Len(fwds[p]) + 1)..Len(fwds'[p]) :
                  /\ Arriving(p).messageType = "message"
                  /\ fwds'[p][f].msg.messageType = "reply"
       /\ (\E mid \in MsgIDs : sendMessage(p, mid) /\ namespace[p] = SharedNamespace)
          => /\ NewForward(p)
             /\ Forwarded(p).transactionId = nextTid
             /\ Forwarded(p).messageType = "message"
             /\ Forwarded(p).destination = <<[context |-> "window", tabId |-> "null"]>>
             /\ pending'[p] = pending[p]
             /\ events'[p] = events[p]
             /\ Posted(p) /\ LastPosted(p).cmd = "verify"
       /\ \A i \in 1..Len(pending[p]) :
            Settling(p, i)
            => /\ NewForward(p)
               /\ Forwarded(p).destination = pending[p][i].origin
               /\ pending'[p] = Remove(pending[p], i)
               /\ openTransactions'[p] = openTransactions[p]
               /\ \A k \in (Len(events[p]) + 1)..Len(events'[p]) : ~IsSettlement(events'[p][k])
               /\ Posted(p) /\ LastPosted(p).cmd = "verify"
       /\ \A f \in 1..Len(fwds[p]) : fwds'[p][f].msg = fwds[p][f].msg
       /\ (Posted(p) /\ LastPosted(p).cmd = "route")
          => \E f \in 1..Len(fwds[p]) :
               /\ fwds'[p][f].sent = fwds[p][f].sent + 1
               /\ LastPosted(p).payload = <<fwds[p][f].msg>>
               /\ fwds[p][f].msg.destination # NoEndpoint]_vars

C14_Witness ==
  \E p, q \in Procs :
    /\ Len(fwds[p]) = 1
    /\ fwds[p][1].msg.destination = Endpoint("window")
    /\ fwds[p][1].sent = 1
    /\ Len(pending[q]) = 1
    /\ pending[q][1].transactionId = fwds[p][1].msg.transactionId
    /\ pending[q][1].hops = <<runtimeId(p), runtimeId(q)>>
    /\ fwds[q] = <<>>


\* ------------------------------------------------------------ claims: Endpoint Model
ContextNames ==
  {<<"b", "a", "c", "k", "g", "r", "o", "u", "n", "d">>,
   <<"d", "e", "v", "t", "o", "o", "l", "s">>,
   <<"p", "o", "p", "u", "p">>,
   <<"o", "p", "t", "i", "o", "n", "s">>,
   <<"c", "o", "n", "t", "e", "n", "t", "-", "s", "c", "r", "i", "p", "t">>,
   <<"w", "i", "n", "d", "o", "w">>}
\* the instances written in the addresses, and their values
Instances ==
  {[str |-> <<"0">>, val |-> 0], [str |-> <<"7">>, val |-> 7],
   [str |-> <<"1", "2">>, val |-> 12], [str |-> <<"0", "0", "7">>, val |-> 7]}
Bare(a) == a \in ContextNames
WithInstance(a, c, d) == a = c \o <<"@">> \o d.str

\* C15 as stated: every address context[@instance] with context in the
\* enumeration parses to that context, with the instance as tabId when one is
\* given and no number as tabId when none is given; any other string parses to
\* no context.
C15_ParsesEveryAddress ==
  parsed # <<>>
  => /\ Bare(address) => parsed[1].context = <<address>> /\ parsed[1].tabId.t # "number"
     /\ \A c \in ContextNames, d \in Instances :
          WithInstance(address, c, d)
          => parsed[1].context = <<c>> /\ parsed[1].tabId = [t |-> "number", n |-> d.val]
     /\ (~Bare(address) /\ \A c \in ContextNames, d \in Instances : ~WithInstance(address, c, d))
        => parsed[1].context = <<>>

\* C15 amended: as stated for the contexts other than background and for the
\* bare string background; background followed by an instance parses to no
\* context, like any other string; tabId is NaN wherever no instance is parsed.
C15_ParsesAddressesExceptBackgroundInstance ==
  parsed # <<>>
  => /\ Bare(address) => parsed[1] = [context |-> <<address>>, tabId |-> [t |-> "NaN", n |-> 0]]
     /\ \A c \in ContextNames, d \in Instances :
          WithInstance(address, c, d)
          => parsed[1] = IF c = <<"b", "a", "c", "k", "g", "r", "o", "u", "n", "d">>
                         THEN [context |-> <<>>, tabId |-> [t |-> "NaN", n |-> 0]]
                         ELSE [context |-> <<c>>, tabId |-> [t |-> "number", n |-> d.val]]
     /\ (~Bare(address) /\ \A c \in ContextNames, d \in Instances : ~WithInstance(address, c, d))
        => parsed[1] = [context |-> <<>>, tabId |-> [t |-> "NaN", n |-> 0]]

C15_Witness ==
  /\ address = <<"b", "a", "c", "k", "g", "r", "o", "u", "n", "d", "@", "7">>
  /\ parsed = <<[context |-> <<>>, tabId |-> [t |-> "NaN", n |-> 0]]>>


\* ------------------------------------------------------------ claims: hops
\* every envelope the instances and the relay hold
Envelopes ==
  UNION {{fwds[p][k].msg : k \in 1..Len(fwds[p])} : p \in Procs}
  \cup UNION {{pending[p][k] : k \in 1..Len(pending[p])} : p \in Procs}
  \cup UNION {{transit[p][k] : k \in 1..Len(transit[p])} : p \in Procs}
  \cup UNION {{failed[p][k] : k \in 1..Len(failed[p])} : p \in Procs}
  \cup UNION {{inbox[p][k].payload[1] : k \in {j \in 1..Len(inbox[p]) : inbox[p][j].payload # <<>>}}
               : p \in Procs}
  \cup UNION {{outbox[p][k].payload[1] : k \in {j \in 1..Len(outbox[p]) : outbox[p][j].payload # <<>>}}
               : p \in Procs}
NoRepeat(hops) == \A i, j \in 1..Len(hops) : hops[i] = hops[j] => i = j

\* C16: no runtime identity appears twice in the hops of any envelope, and
\* routing an envelope not yet visited (a request sent, a reply built, a
\* delivery taken from the relay) puts the local identity once, last, after the
\* identities it came with.
C16_HopsAppendOnce ==
  /\ [](\A e \in Envelopes : NoRepeat(e.hops))
  /\ [][\A p \in Procs :
          /\ (\E mid \in MsgIDs : sendMessage(p, mid))
             => IF namespace[p] = SharedNamespace
                THEN NewForward(p) /\ Forwarded(p).hops = <<<<"rt", p>>>>
                ELSE /\ Len(failed'[p]) = Len(failed[p]) + 1
                     /\ failed'[p][Len(failed'[p])].hops = <<<<"rt", p>>>>
          /\ \A i \in 1..Len(pending[p]) :
               Settling(p, i) => NewForward(p) /\ Forwarded(p).hops = <<<<"rt", p>>>>
          /\ (/\ AcceptedRoute(p) /\ ~Visited(p)
              /\ Arriving(p).messageType = "message"
              /\ Arriving(p).messageID \in onMessageListeners[p]
              /\ WindowOnMessage(p))
             => /\ Len(pending'[p]) = Len(pending[p]) + 1
                /\ pending'[p][Len(pending'[p])].hops = Arriving(p).hops \o <<<<"rt", p>>>>]_vars

C16_Witness ==
  \E p, q \in Procs :
    /\ p # q
    /\ \E i \in 1..Len(pending[q]) : pending[q][i].hops = <<<<"rt", p>>, <<"rt", q>>>>
    /\ \E f \in 1..Len(fwds[p]) : fwds[p][f].msg.hops = <<<<"rt", p>>>>


\* ------------------------------------------------------------ claims: retry timer
\* the step posts a probe for forwarder f of instance p
Probes(p, f) ==
  /\ Posted(p)
  /\ LastPosted(p).cmd = "verify"
  /\ LastPosted(p).port[1].proc = p
  /\ LastPosted(p).port[1].fwd = f

\* C17: the acknowledgment processed for the current attempt cancels its timer;
\* from then on the forwarder starts no attempt and posts no probe; and a probe
\* for an envelope already forwarded is posted only by the firing of its
\* pending timer, which the new attempt's timer replaces: one timer at most is
\* pending for an envelope.
C17_AcknowledgedStopsRetry ==
  [][\A p \in Procs : \A f \in 1..Len(fwds[p]) :
       LET fw == fwds[p][f]
       IN /\ (fw.attempt \in fw.onmessage /\ PortMessage(p, f, fw.attempt))
             => fwds'[p][f].retry = "cleared"
          /\ fw.retry = "cleared"
             => /\ fwds'[p][f].retry = "cleared"
                /\ fwds'[p][f].attempt = fw.attempt
                /\ fwds'[p][f].onmessage = fw.onmessage
                /\ ~Probes(p, f)
                /\ ~RetryTimeout(p, f)
          /\ Probes(p, f)
             => /\ fw.retry = "pending"
                /\ RetryTimeout(p, f)
                /\ fwds'[p][f].retry = "pending"
                /\ fwds'[p][f].onmessage \cap fw.onmessage \subseteq {MaxAttempts}]_vars

C17_Witness ==
  \E pf \in Forwarders :
    /\ Fw(pf).retry = "cleared"
    /\ Fw(pf).attempt = 2
    /\ Fw(pf).arrived[2] = 2
    /\ Fw(pf).sent = 2


\* ------------------------------------------------------------ claims: data or err
\* C18: every reply built carries one of data and err: the return value as data
\* and no err when the handler returned, whatever the request carried; an err
\* and no data when the handler threw or no handler was registered.
C18_ReplyCarriesDataOrErr ==
  \A p \in Procs : \A f \in 1..Len(fwds[p]) :
    LET r == fwds[p][f].msg
    IN r.messageType = "reply"
       => /\ r.outcome = "returned" => (r.data = r.result /\ ~Truthy(r.err))
          /\ r.outcome \in {"threw", "nohandler"} => (Truthy(r.err) /\ ~Truthy(r.data))


\* ------------------------------------------------------------ claims: concurrent transactions
\* C19: with several requests suspended in one instance, the settlement of one
\* handler call, in any order, forwards exactly one reply, with the
\* transactionId of its request and that request's origin as destination, and
\* leaves the other suspended requests as they are; a reply that arrives
\* removes its own transactionId from the transaction table and no other.
C19_NoCrossTalk ==
  [][\A p \in Procs :
       /\ \A i \in 1..Len(pending[p]) :
            (Settling(p, i) /\ namespace[p] = SharedNamespace)
            => /\ NewForward(p)
               /\ Forwarded(p).messageType = "reply"
               /\ Forwarded(p).transactionId = pending[p][i].transactionId
               /\ Forwarded(p).destination = pending[p][i].origin
               /\ Posted(p) /\ LastPosted(p).cmd = "verify"
               /\ pending'[p] = [j \in 1..(Len(pending[p]) - 1) |->
                                   IF j < i THEN pending[p][j] ELSE pending[p][j + 1]]
               /\ openTransactions'[p] = openTransactions[p]
       /\ (/\ AcceptedRoute(p) /\ ~Visited(p)
           /\ Arriving(p).messageType = "reply"
           /\ WindowOnMessage(p))
          => /\ openTransactions'[p] = openTransactions[p] \ {Arriving(p).transactionId}
             /\ pending'[p] = pending[p]
             /\ fwds'[p] = fwds[p]
             /\ \A k \in (Len(events[p]) + 1)..Len(events'[p]) :
                  events'[p][k].tid = Arriving(p).transactionId]_vars

\* of two requests suspended together the second was settled first; of two
\* transactions open together one was settled
C19_Witness ==
  \E p \in Procs : \E f \in 1..Len(fwds[p]) :
    /\ Len(pending[p]) = 1
    /\ pending[p][1].transactionId = 1
    /\ fwds[p][f].msg.messageType = "reply"
    /\ fwds[p][f].msg.transactionId = 2
    /\ fwds[p][f].msg.destination = Endpoint("devtools")
    /\ posted = MaxPosts

C19_WitnessSender ==
  \E p \in Procs : \E i \in 1..Len(events[p]) :
    /\ events[p][i].ev = "resolved"
    /\ events[p][i].tid = 1
    /\ openTransactions[p] = {2}


\* ------------------------------------------------------------ claims: routing again
\* C20: the envelope of a routeMessage call that failed with the configuration
\* error holds the local identity in its hops; routing that envelope again in
\* the same instance, whatever the namespace is by then, does nothing (the
\* model notes "looped"): no forwarder, no probe, no error.
C20_FailedRoutingIsNotRepeated ==
  /\ [][\A p \in Procs :
          /\ (Misconfigured(p) /\ \E mid \in MsgIDs : sendMessage(p, mid))
             => /\ Len(failed'[p]) = Len(failed[p]) + 1
                /\ failed'[p][Len(failed'[p])].transactionId = nextTid
                /\ failed'[p][Len(failed'[p])].hops = <<<<"rt", p>>>>
          /\ \A i \in 1..Len(failed[p]) :
               routeMessageAgain(p, i)
               => /\ fwds'[p] = fwds[p]
                  /\ inbox'[p] = inbox[p]
                  /\ outbox'[p] = outbox[p]
                  /\ openTransactions'[p] = openTransactions[p]
                  /\ events'[p] = Append(events[p],
                                         Event("looped", failed[p][i].transactionId, Undefined))]_vars
  /\ [](\A p \in Procs : \A f \in 1..Len(fwds[p]) : \A i \in 1..Len(failed[p]) :
          fwds[p][f].msg # failed[p][i])

\* the envelope was routed again while a namespace was set, and the instance
\* forwards nothing
C20_Witness ==
  \E p \in Procs :
    /\ namespace[p] = SharedNamespace
    /\ fwds[p] = <<>>
    /\ failed[p] = <<>>
    /\ Len(events[p]) = 2
    /\ IsConfigError(events[p][1])
    /\ events[p][2] = Event("looped", events[p][1].tid, Undefined)
    /\ posted = 0

====
